---- MODULE Spec2Model ----
(***************************************************************************)
(* A model of the AI investment planner's core: the risk scoring engine    *)
(* (core/recommender.py: simple_risk_score, infer_risk_profile), the       *)
(* product ranker (recommend_products), the lazily cached product          *)
(* catalogue (load_product_catalog), the projection text                   *)
(* (core/cards.py: make_projection_text), and the application flow of      *)
(* app.py with the profile extraction of core/llm_extractor.py.            *)
(*                                                                         *)
(* Numbers.  Python floats are modelled as exact rationals [n, d] with     *)
(* d > 0 in lowest terms.  Money (savings, investment_budget,              *)
(* Min_Investment, principal) is held as an integer count of quarter       *)
(* pounds, so that amounts strictly between 0 and 1 pound exist.           *)
(* Optional values (None) are sequences of length 0 or 1.                  *)
(***************************************************************************)
EXTENDS Integers, Sequences, FiniteSets, TLC

VARIABLES
    profile,    \* Option(InvestorProfile): the profile handed to the scoring engine
    score,      \* Option(rational): the float simple_risk_score returned / the caller's score
    label,      \* Option(STRING): what infer_risk_profile returned for score
    proj_in,    \* Option(record): the keyword arguments of make_projection_text
    proj_out,   \* Option(record): the text make_projection_text returned
    cache,      \* Option(DataFrame instance): recommender._product_df_cache
    file,       \* the rows of the catalogue file at PRODUCT_CATALOG_PATH
    loads,      \* number of pd.read_csv calls made so far
    pc,         \* per thread: its place in load_product_catalog
    local,      \* per thread: the frame read by its pd.read_csv, not yet assigned
    got,        \* per thread: Option(instance) that load_product_catalog returned to it
    request,    \* Option(record): arguments of the last recommend_products call
    result,     \* Option(sequence of row labels): the rows that call selected, in order
    first,      \* Option(record): arguments and result of the first completed call
    later,      \* whether the last completed call came after the first one
    ai_profile, \* st.session_state.ai_profile: Option(InvestorProfile)
    reset,      \* st.session_state.reset
    user_text,  \* st.session_state.user_text: the text area's content
    run         \* what the last run of the app.py script did

vars == <<profile, score, label, proj_in, proj_out, cache, file, loads, pc, local,
          got, request, result, first, later, ai_profile, reset, user_text, run>>

None == <<>>
Some(x) == <<x>>
IsSome(o) == Len(o) = 1
Val(o) == o[1]

(***************************************************************************)
(* Exact rational arithmetic standing for Python's float arithmetic.       *)
(***************************************************************************)
Abs(x) == IF x < 0 THEN -x ELSE x

RECURSIVE GCD(_, _)
GCD(a, b) == IF b = 0 THEN a ELSE GCD(b, a % b)

R(n, d) ==
    IF d = 1 THEN [n |-> n, d |-> 1]
    ELSE LET g == GCD(Abs(n), Abs(d))
             s == IF d < 0 THEN -1 ELSE 1
         IN  [n |-> (s * n) \div g, d |-> (s * d) \div g]

Float(x) == [n |-> x, d |-> 1]
RAdd(a, b) == R(a.n * b.d + b.n * a.d, a.d * b.d)
RSub(a, b) == R(a.n * b.d - b.n * a.d, a.d * b.d)
RMul(a, b) ==
    LET g1 == GCD(Abs(a.n), b.d)
        g2 == GCD(Abs(b.n), a.d)
    IN  IF a.n = 0 \/ b.n = 0 THEN Float(0)
        ELSE [n |-> (a.n \div g1) * (b.n \div g2), d |-> (a.d \div g2) * (b.d \div g1)]
RDiv(a, b) == IF b.n < 0 THEN RMul(a, [n |-> -b.d, d |-> -b.n])
              ELSE RMul(a, [n |-> b.d, d |-> b.n])
RLt(a, b) == IF a.d = b.d THEN a.n < b.n ELSE a.n * b.d < b.n * a.d
RLe(a, b) == IF a.d = b.d THEN a.n <= b.n ELSE a.n * b.d <= b.n * a.d
RMin(a, b) == IF RLt(b, a) THEN b ELSE a
RMax(a, b) == IF RLt(a, b) THEN b ELSE a

\* An amount of p whole pounds, in quarter pounds.
Pounds(p) == 4 * p
\* A money field as the float it is in the program.
Money(q) == R(q, 4)

(***************************************************************************)
(* core/mappings.py                                                        *)
(***************************************************************************)
INCOME_BANDS ==
    << "0 - No income / rely on investment returns",
       "Less than 25,000",
       "25,000 - 49,999",
       "50,000 - 74,999",
       "75,000 - 99,999",
       "100,000 or more" >>

DEBT_BANDS == << "No debt", "Less than 10,000", "10,000 - 25,000", "Over 25,000" >>

PURPOSES ==
    << "Retirement savings", "Funding education", "Buying property",
       "Wealth accumulation" >>

Range(s) == {s[i] : i \in DOMAIN s}

(***************************************************************************)
(* core/schemas.py: InvestorProfile is a plain dataclass; its constructor  *)
(* stores the seven fields as given and validates nothing.                 *)
(***************************************************************************)
InvestorProfile(income_bracket, savings, debt_level, investment_budget, investment_term_months, risk_tolerance, investment_purpose) ==
    [income_bracket |-> income_bracket,
     savings |-> savings,
     debt_level |-> debt_level,
     investment_budget |-> investment_budget,
     investment_term_months |-> investment_term_months,
     risk_tolerance |-> risk_tolerance,
     investment_purpose |-> investment_purpose]

(***************************************************************************)
(* core/recommender.py: simple_risk_score                                  *)
(***************************************************************************)
\* The bands the two lookups name (lines 32-35 and 58-60); every other
\* value takes the final else.
IncomeLookupKeys ==
    {"0 - No income / rely on investment returns", "0-£25,000", "25,000 - 49,999",
     "50,000 - 99,999"}

DebtLookupKeys == {"No debt", "Less than 10,000", "10,000 - 25,000"}

income(p) ==
    IF p.income_bracket = "0 - No income / rely on investment returns" THEN 20000
    ELSE IF p.income_bracket = "0-£25,000" THEN 30000
    ELSE IF p.income_bracket = "25,000 - 49,999" THEN 40000
    ELSE IF p.income_bracket = "50,000 - 99,999" THEN 65000
    ELSE 120000

\* A variant with the 1..5 scale inverted (5 - risk_tolerance).
risk_tolerance_score_Inverted(p) ==
    RMul(RDiv(Float(5 - p.risk_tolerance), Float(4)), Float(100))

risk_tolerance_score(p) ==
    RMul(RDiv(Float(p.risk_tolerance - 1), Float(4)), Float(100))

emergency_need(p) == RDiv(Float(income(p)), Float(4))

savings_ratio(p) == RDiv(Money(p.savings), RMax(emergency_need(p), Float(1)))

savings_score(p) ==
    LET ratio == savings_ratio(p)
    IN  IF RLt(ratio, R(1, 2)) THEN 20
        ELSE IF RLt(ratio, Float(1)) THEN 40
        ELSE IF RLt(ratio, Float(2)) THEN 60
        ELSE 80

debt_value(p) ==
    IF p.debt_level = "No debt" THEN 0
    ELSE IF p.debt_level = "Less than 10,000" THEN 5000
    ELSE IF p.debt_level = "10,000 - 25,000" THEN 15000
    ELSE 30000

debt_ratio(p) == RDiv(Float(debt_value(p)), RMax(Float(income(p)), Float(1)))

debt_score(p) ==
    LET ratio == debt_ratio(p)
    IN  IF RLt(R(1, 2), ratio) THEN 20
        ELSE IF RLt(R(1, 4), ratio) THEN 40
        ELSE IF RLt(R(1, 10), ratio) THEN 60
        ELSE 80

\* investment_budget / max(savings, 1), computed at lines 78 and 99 alike.
budget_ratio(p) == RDiv(Money(p.investment_budget), RMax(Money(p.savings), Float(1)))

investment_burden_score(p) ==
    LET ratio == budget_ratio(p)
    IN  IF p.investment_budget <= p.savings THEN 80
        ELSE IF RLt(ratio, Float(2)) THEN 60
        ELSE IF RLt(ratio, Float(5)) THEN 40
        ELSE 20

capacity_score(p) ==
    RDiv(Float(savings_score(p) + debt_score(p) + investment_burden_score(p)), Float(3))

time_score(p) ==
    RMul(RMin(RDiv(Float(p.investment_term_months), Float(360)), Float(1)), Float(100))

financial_stability_score(p) == RDiv(Float(savings_score(p) + debt_score(p)), Float(2))

knowledge_score == Float(50)

leverage_penalty(p) ==
    IF p.investment_budget > p.savings
    THEN RMin(RMul(RSub(budget_ratio(p), Float(1)), Float(20)), Float(30))
    ELSE Float(0)

final_score(p) ==
    RSub(RAdd(RAdd(RAdd(RAdd(RMul(R(30, 100), risk_tolerance_score(p)),
                             RMul(R(20, 100), capacity_score(p))),
                        RMul(R(20, 100), time_score(p))),
                   RMul(R(15, 100), financial_stability_score(p))),
              RMul(R(10, 100), knowledge_score)),
         RMul(R(5, 100), leverage_penalty(p)))

\* A variant that returns final_score as it is.
Clamp_Absent(x) == x

Clamp(x) == RMax(Float(0), RMin(x, Float(100)))

simple_risk_score(p) == Clamp(final_score(p))

(***************************************************************************)
(* core/recommender.py: infer_risk_profile                                 *)
(***************************************************************************)
\* A variant whose first boundary belongs to the upper label (score < 20).
infer_risk_profile_StrictFirst(s) ==
    IF RLt(s, Float(20)) THEN "Defensive"
    ELSE IF RLe(s, Float(40)) THEN "Conservative"
    ELSE IF RLe(s, Float(60)) THEN "Balanced"
    ELSE IF RLe(s, Float(80)) THEN "Growth"
    ELSE "Aggressive"

infer_risk_profile(s) ==
    IF RLe(s, Float(20)) THEN "Defensive"
    ELSE IF RLe(s, Float(40)) THEN "Conservative"
    ELSE IF RLe(s, Float(60)) THEN "Balanced"
    ELSE IF RLe(s, Float(80)) THEN "Growth"
    ELSE "Aggressive"

(***************************************************************************)
(* The scoring engine applied to bounded inputs.  A profile is any value   *)
(* the dataclass constructor accepts: the extractor (llm_extractor.py      *)
(* lines 102-110) passes whatever the language model returned, so bands    *)
(* outside core/mappings.py, a risk_tolerance outside 1..5 and a term      *)
(* below 1 are all constructible.                                          *)
(***************************************************************************)
IncomeInputs ==
    Range(INCOME_BANDS) \cup {"0-£25,000", "50,000 - 99,999"}

DebtInputs == Range(DEBT_BANDS) \cup {"unknown"}

SavingsInputs ==
    {-Pounds(1000), 0, 1, Pounds(1), Pounds(2500), Pounds(5000), Pounds(60000)}

BudgetInputs ==
    {0, 2, 3, Pounds(7500), Pounds(25000), Pounds(1000000)}

TermInputs == {-12, 1, 60, 1000000}

ToleranceInputs == {-3, 1, 2, 3, 4, 5, 9}

ScoreProfiles ==
    {InvestorProfile(i, s, d, b, t, r, "Wealth accumulation") :
        i \in IncomeInputs, s \in SavingsInputs, d \in DebtInputs,
        b \in BudgetInputs, t \in TermInputs, r \in ToleranceInputs}

\* Scores a caller may hand to infer_risk_profile directly: every quarter
\* point of [0, 100] and the values one ten-thousandth around each boundary.
ScoreInputs ==
    {R(k, 4) : k \in 0..400}
        \cup {R(b * 10000 + e, 10000) : b \in {20, 40, 60, 80}, e \in {-1, 1}}

\* The variables of the other components, at rest.
ProjIdle == proj_in = None /\ proj_out = None
LoadIdle ==
    /\ cache = None /\ file = <<>> /\ loads = 0
    /\ pc = <<>> /\ local = <<>> /\ got = <<>>
RankIdle == request = None /\ result = None /\ first = None /\ later = FALSE
ScoreIdle == profile = None /\ score = None /\ label = None
AppIdle == ai_profile = None /\ reset = FALSE /\ user_text = "" /\ run = "start"

scoreVars == <<profile, score, label>>
projVars == <<proj_in, proj_out>>
loadVars == <<cache, file, loads, pc, local, got>>
rankVars == <<request, result, first, later>>
appVars == <<ai_profile, reset, user_text, run>>

InitScore ==
    /\ \/ profile \in {Some(p) : p \in ScoreProfiles} /\ score = None
       \/ profile = None /\ score \in {Some(s) : s \in ScoreInputs}
    /\ label = None
    /\ ProjIdle /\ LoadIdle /\ RankIdle /\ AppIdle

\* score = simple_risk_score(profile)
SimpleRiskScore ==
    /\ IsSome(profile) /\ score = None
    /\ score' = Some(simple_risk_score(Val(profile)))
    /\ UNCHANGED <<profile, label, projVars, loadVars, rankVars, appVars>>

\* risk_profile = infer_risk_profile(score)
InferRiskProfile ==
    /\ IsSome(score) /\ label = None
    /\ label' = Some(infer_risk_profile(Val(score)))
    /\ UNCHANGED <<profile, score, projVars, loadVars, rankVars, appVars>>

NextScore == SimpleRiskScore \/ InferRiskProfile

SpecScore == InitScore /\ [][NextScore]_vars

(***************************************************************************)
(* Properties of the scoring engine (checked under SpecScore).             *)
(***************************************************************************)
RiskProfileLabels == {"Defensive", "Conservative", "Balanced", "Growth", "Aggressive"}

\* C1: whatever the profile, extreme ones included, simple_risk_score returns
\* a value in the closed range [0, 100].
C1_ScoreInRange ==
    (IsSome(profile) /\ IsSome(score)) =>
        (RLe(Float(0), Val(score)) /\ RLe(Val(score), Float(100)))

\* The extreme profile of C1 has been scored: tolerance 5, a term of a million
\* months, a budget of a million pounds against savings of 0.
C1_Witness ==
    /\ IsSome(profile) /\ IsSome(score)
    /\ Val(profile).risk_tolerance = 5
    /\ Val(profile).investment_term_months = 1000000
    /\ Val(profile).savings = 0
    /\ Val(profile).investment_budget = Pounds(1000000)

\* C2: infer_risk_profile gives every score of [0, 100] exactly one of the five
\* labels, each boundary belonging to the lower label: <= 20 Defensive,
\* (20, 40] Conservative, (40, 60] Balanced, (60, 80] Growth, > 80 Aggressive.
C2_LabelPartition ==
    (IsSome(score) /\ IsSome(label)) =>
        LET s == Val(score)
            l == Val(label)
        IN  /\ RLe(Float(0), s) /\ RLe(s, Float(100))
            /\ l \in RiskProfileLabels
            /\ (l = "Defensive") <=> RLe(s, Float(20))
            /\ (l = "Conservative") <=> (RLt(Float(20), s) /\ RLe(s, Float(40)))
            /\ (l = "Balanced") <=> (RLt(Float(40), s) /\ RLe(s, Float(60)))
            /\ (l = "Growth") <=> (RLt(Float(60), s) /\ RLe(s, Float(80)))
            /\ (l = "Aggressive") <=> RLt(Float(80), s)

\* A score of exactly 20 has been classified, as Defensive.
C2_Witness ==
    /\ IsSome(score) /\ IsSome(label)
    /\ Val(score) = Float(20)
    /\ Val(label) = "Defensive"

\* C3: of two profiles that differ only in risk_tolerance, both in 1..5, the
\* one with the higher risk_tolerance scores at least as much.
C3_MonotoneInTolerance ==
    (IsSome(profile) /\ IsSome(score) /\ Val(profile).risk_tolerance \in 1..5) =>
        \A r \in 1..5 :
            r >= Val(profile).risk_tolerance =>
                RLe(Val(score),
                    simple_risk_score([Val(profile) EXCEPT !.risk_tolerance = r]))

\* A profile of tolerance 2 has been scored, and the same profile with
\* tolerance 4 scores strictly more.
C3_Witness ==
    /\ IsSome(profile) /\ IsSome(score)
    /\ Val(profile).risk_tolerance = 2
    /\ RLt(Val(score), simple_risk_score([Val(profile) EXCEPT !.risk_tolerance = 4]))

\* C8: a profile whose income_bracket or debt_level is not a band the scoring
\* lookup maps never reaches scoring (its construction is an error), so no
\* scored profile carries such a band.  The top band of each list of
\* core/mappings.py is counted as mapped by the lookup's final else.
C8_UnmappedBandRejected ==
    (IsSome(profile) /\ IsSome(score)) =>
        /\ Val(profile).income_bracket
               \in IncomeLookupKeys \cup {INCOME_BANDS[Len(INCOME_BANDS)]}
        /\ Val(profile).debt_level
               \in DebtLookupKeys \cup {DEBT_BANDS[Len(DEBT_BANDS)]}

\* The score as the weighted formula states it, with the investment-burden
\* bucket taken from investment_budget / savings itself.  Where the formula
\* is silent (the representative income, the debt value, the leverage
\* penalty) the value simple_risk_score computes is used.
FormulaSavingsBucket(p) ==
    LET ratio == RDiv(Money(p.savings), RDiv(Float(income(p)), Float(4)))
    IN  IF RLt(ratio, R(1, 2)) THEN 20
        ELSE IF RLt(ratio, Float(1)) THEN 40
        ELSE IF RLt(ratio, Float(2)) THEN 60
        ELSE 80
FormulaDebtBucket(p) ==
    LET ratio == RDiv(Float(debt_value(p)), Float(income(p)))
    IN  IF RLt(R(1, 2), ratio) THEN 20
        ELSE IF RLt(R(1, 4), ratio) THEN 40
        ELSE IF RLt(R(1, 10), ratio) THEN 60
        ELSE 80
FormulaBurdenBucket(p) ==
    IF p.investment_budget <= p.savings THEN 80
    ELSE LET ratio == RDiv(Money(p.investment_budget), Money(p.savings))
         IN  IF RLt(ratio, Float(2)) THEN 60
             ELSE IF RLt(ratio, Float(5)) THEN 40
             ELSE 20
FormulaScore(p) ==
    LET tolerance == RMul(R(p.risk_tolerance - 1, 4), Float(100))
        time == RMul(RMin(R(p.investment_term_months, 360), Float(1)), Float(100))
        capacity == R(FormulaSavingsBucket(p) + FormulaDebtBucket(p)
                          + FormulaBurdenBucket(p), 3)
        stability == R(FormulaSavingsBucket(p) + FormulaDebtBucket(p), 2)
        weighted ==
            RSub(RAdd(RAdd(RAdd(RAdd(RMul(R(30, 100), tolerance),
                                     RMul(R(20, 100), capacity)),
                                RMul(R(20, 100), time)),
                           RMul(R(15, 100), stability)),
                      RMul(R(10, 100), Float(50))),
                 RMul(R(5, 100), leverage_penalty(p)))
    IN  RMax(Float(0), RMin(weighted, Float(100)))

\* A profile within the documented ranges, on which the formula is defined:
\* savings and budget not negative, a term of at least a month, a tolerance
\* of 1..5, and savings above 0 whenever the budget exceeds them.
FormulaDefined(p) ==
    /\ p.savings >= 0 /\ p.investment_budget >= 0
    /\ p.investment_term_months >= 1
    /\ p.risk_tolerance \in 1..5
    /\ (p.investment_budget > p.savings => p.savings > 0)

\* C13: for every valid profile simple_risk_score equals the clamped weighted
\* sum 0.30 tolerance + 0.20 capacity + 0.20 time + 0.15 stability + 0.10 * 50
\* - 0.05 leverage_penalty, with the buckets chosen by savings/(income/4),
\* debt/income, and budget <= savings else budget/savings < 2, < 5.
C13_ScoreEqualsFormula ==
    (IsSome(profile) /\ IsSome(score) /\ FormulaDefined(Val(profile))) =>
        Val(score) = FormulaScore(Val(profile))

\* The same equality on the profiles whose savings are at least one pound or
\* cover the budget.
ScoreEqualsFormulaFromOnePound ==
    (/\ IsSome(profile) /\ IsSome(score) /\ FormulaDefined(Val(profile))
     /\ \/ Val(profile).savings >= Pounds(1)
        \/ Val(profile).investment_budget <= Val(profile).savings) =>
        Val(score) = FormulaScore(Val(profile))

\* The position of a band in INCOME_BANDS, 0 when it is not one of them.
BandPosition(b) ==
    IF b \in Range(INCOME_BANDS)
    THEN CHOOSE i \in DOMAIN INCOME_BANDS : INCOME_BANDS[i] = b
    ELSE 0

\* C15: the representative income used in scoring is non-decreasing along
\* INCOME_BANDS: the scored profile's band never gets a larger income than a
\* band further up the list.
C15_IncomeMonotoneAlongBands ==
    (IsSome(profile) /\ IsSome(score)
     /\ Val(profile).income_bracket \in Range(INCOME_BANDS)) =>
        \A j \in DOMAIN INCOME_BANDS :
            BandPosition(Val(profile).income_bracket) < j =>
                income(Val(profile))
                    <= income([Val(profile) EXCEPT !.income_bracket = INCOME_BANDS[j]])

\* C16: with savings >= 0 and investment_budget >= 0 the leverage penalty
\* lies in [0, 30], and is 0 when the budget does not exceed the savings.
C16_LeveragePenaltyInRange ==
    (IsSome(profile) /\ IsSome(score)
     /\ Val(profile).savings >= 0 /\ Val(profile).investment_budget >= 0) =>
        /\ RLe(Float(0), leverage_penalty(Val(profile)))
        /\ RLe(leverage_penalty(Val(profile)), Float(30))
        /\ Val(profile).investment_budget <= Val(profile).savings =>
               leverage_penalty(Val(profile)) = Float(0)

\* The same range on the profiles whose savings are at least one pound.
LeveragePenaltyInRangeFromOnePound ==
    (IsSome(profile) /\ IsSome(score)
     /\ Val(profile).savings >= Pounds(1) /\ Val(profile).investment_budget >= 0) =>
        /\ RLe(Float(0), leverage_penalty(Val(profile)))
        /\ RLe(leverage_penalty(Val(profile)), Float(30))

(***************************************************************************)
(* The product catalogue.  A DataFrame is [id, rows]: id tells one frame   *)
(* object from another, rows is the sequence of its rows in their physical *)
(* order, each carrying its index label.  The two text columns             *)
(* Suitable_Risk_Profiles and Suitable_Purposes are only ever tested with  *)
(* str.contains(label), so each is held as the set of labels that occur    *)
(* in it as substrings.  Expected_Annual_Return_pct is None where the cell *)
(* is empty (NaN).                                                         *)
(***************************************************************************)
MaxRows == 3
MaxTopN == 2

Min(a, b) == IF a < b THEN a ELSE b
Max(a, b) == IF a > b THEN a ELSE b

\* pd.read_csv: a new frame whose rows are the file's, labelled 0, 1, 2, ...
read_csv(f, n) ==
    [id |-> n, rows |-> [i \in 1..Len(f) |-> [index |-> i - 1] @@ f[i]]]

\* load_product_catalog, run without interruption: the value of
\* _product_df_cache after the call, which is also what the call returns.
load_product_catalog(c, f, n) ==
    IF c = None THEN Some(read_csv(f, n + 1)) ELSE c

\* Series.str.contains(pat) on one cell.
str_contains(cell, pat) == pat \in cell

\* A variant that keeps every row, suitable or not.
hard_filter_Absent(df, risk_profile) == df

\* df[df["Suitable_Risk_Profiles"].str.contains(risk_profile)]
hard_filter(df, risk_profile) ==
    LET Keep(r) == str_contains(r.Suitable_Risk_Profiles, risk_profile)
    IN  SelectSeq(df, Keep)

\* The three computed columns of a row.
affordable(p, r) == p.investment_budget >= r.Min_Investment
risk_diff(p, r) == Abs(r.Risk_Level - p.risk_tolerance)
purpose_match(p, r) == str_contains(r.Suitable_Purposes, p.investment_purpose)

\* A variant that takes every suitable row into stage 1, matching or not.
df_purpose_All(df, p) == df

\* df[df["purpose_match"]]
df_purpose(df, p) ==
    LET Keep(r) == purpose_match(p, r)
    IN  SelectSeq(df, Keep)

\* A variant that sorts on risk_diff before affordable.
SortsBefore_RiskDiffFirst(p, a, b) ==
    \/ risk_diff(p, a) < risk_diff(p, b)
    \/ /\ risk_diff(p, a) = risk_diff(p, b)
       /\ \/ affordable(p, a) /\ ~affordable(p, b)
          \/ /\ affordable(p, a) = affordable(p, b)
             /\ a.Min_Investment < b.Min_Investment

\* a sorts strictly before b under ["affordable", "risk_diff", "Min_Investment"],
\* ascending=[False, True, True].
SortsBefore(p, a, b) ==
    \/ affordable(p, a) /\ ~affordable(p, b)
    \/ /\ affordable(p, a) = affordable(p, b)
       /\ \/ risk_diff(p, a) < risk_diff(p, b)
          \/ /\ risk_diff(p, a) = risk_diff(p, b)
             /\ a.Min_Investment < b.Min_Investment

\* DataFrame.sort_values on several columns: a stable sort (rows equal on all
\* three keys keep their physical order).
RECURSIVE sort_values(_, _)
sort_values(df, p) ==
    IF df = <<>> THEN <<>>
    ELSE LET x == df[Len(df)]
             front == sort_values(SubSeq(df, 1, Len(df) - 1), p)
             NotAfter(e) == ~SortsBefore(p, x, e)
             After(e) == SortsBefore(p, x, e)
         IN  SelectSeq(front, NotAfter) \o <<x>> \o SelectSeq(front, After)

\* DataFrame.head(n): the first n rows, or all but the last -n when n < 0.
head(df, n) ==
    IF n >= 0 THEN SubSeq(df, 1, Min(n, Len(df)))
    ELSE SubSeq(df, 1, Max(Len(df) + n, 0))

\* A variant that offers stage 2 every suitable row, selected or not.
remaining_All(df, selected) == df

\* df[~df.index.isin(selected.index)]
remaining(df, selected) ==
    LET Keep(r) == r.index \notin {selected[i].index : i \in DOMAIN selected}
    IN  SelectSeq(df, Keep)

\* Lines 186-202: one Recommendation per selected row.
Recommendation(r) ==
    [product_name |-> r.Product_Name,
     product_type |-> r.Product_Type,
     risk_level |-> r.Risk_Level,
     min_term_months |-> r.Min_Term_Months,
     min_investment |-> r.Min_Investment,
     expected_return_pct |-> r.Expected_Annual_Return_pct]

\* Lines 145-184 on the copied frame: the rows of `selected`, in order.
select_products(rows, p, top_n) ==
    LET risk_profile == infer_risk_profile(simple_risk_score(p))
        df == hard_filter(rows, risk_profile)
        stage1 == head(sort_values(df_purpose(df, p), p), top_n)
        needed == top_n - Len(stage1)
        extra == head(sort_values(remaining(df, stage1), p), needed)
    IN  IF df = <<>> THEN <<>>
        ELSE IF Len(stage1) < top_n THEN stage1 \o extra
        ELSE stage1

\* A variant that filters the cached frame itself instead of a copy.
recommend_products_cache_InPlace(c, p, top_n) ==
    Some([Val(c) EXCEPT
            !.rows = hard_filter(@, infer_risk_profile(simple_risk_score(p)))])

\* _product_df_cache after recommend_products: line 143 takes a copy, and
\* every later statement works on that copy, so the cached frame stays as loaded.
recommend_products_cache(c, p, top_n) == c

\* What recommend_products returns, with the rows it was built from.
recommend_products(c, p, top_n) ==
    LET selected == select_products(Val(c).rows, p, top_n)
    IN  [selected |-> selected,
         recs |-> [i \in 1..Len(selected) |-> Recommendation(selected[i])]]

(***************************************************************************)
(* Ranking applied to bounded inputs: catalogue files of up to MaxRows     *)
(* rows drawn from a small pool, two profiles whose computed risk        *)
(* profiles differ, and top_n in 0..MaxTopN.                               *)
(***************************************************************************)
Product(name, type, level, profiles, purposes, term, min_inv, ret) ==
    [Product_Name |-> name, Product_Type |-> type, Risk_Level |-> level,
     Suitable_Risk_Profiles |-> profiles, Suitable_Purposes |-> purposes,
     Min_Term_Months |-> term, Min_Investment |-> min_inv,
     Expected_Annual_Return_pct |-> ret]

Pool ==
    { Product("Equity Fund", "Fund", 4, {"Balanced", "Growth", "Aggressive"},
              {"Retirement savings", "Buying property"}, 60, Pounds(10000),
              Some(Float(8))),
      Product("Cash ISA", "Savings", 1,
              {"Defensive", "Conservative", "Balanced", "Growth"},
              {"Retirement savings", "Funding education"}, 0, 0, None),
      Product("Bond Fund", "Fund", 3, {"Balanced", "Growth"},
              {"Retirement savings"}, 12, Pounds(1000), Some(Float(3))),
      Product("Gilt", "Bond", 3, {"Growth"}, {"Retirement savings"},
              24, Pounds(1000), Some(Float(4))) }

RECURSIVE SeqsUpTo(_, _)
SeqsUpTo(S, n) ==
    IF n = 0 THEN {<<>>}
    ELSE LET shorter == SeqsUpTo(S, n - 1)
         IN  shorter \cup {Append(q, x) : q \in shorter, x \in S}

CatalogFiles == SeqsUpTo(Pool, MaxRows)

\* The first scores 41 (Balanced), the second 75.5 (Growth).
RankProfiles ==
    { InvestorProfile("25,000 - 49,999", Pounds(10000), "No debt", Pounds(5000),
                      60, 2, "Buying property"),
      InvestorProfile("0 - No income / rely on investment returns", Pounds(60000),
                      "No debt", Pounds(1000), 360, 4, "Retirement savings") }

InitRank ==
    /\ file \in CatalogFiles
    /\ cache = None /\ loads = 0
    /\ pc = <<>> /\ local = <<>> /\ got = <<>>
    /\ RankIdle /\ ScoreIdle /\ ProjIdle /\ AppIdle

\* recommend_products(profile, top_n), start to end.
RecommendProducts ==
    \E p \in RankProfiles, top_n \in 0..MaxTopN :
        LET df_cache == load_product_catalog(cache, file, loads)
            out == recommend_products(df_cache, p, top_n)
            call == [profile |-> p, top_n |-> top_n]
        IN  /\ cache' = recommend_products_cache(df_cache, p, top_n)
            /\ loads' = IF cache = None THEN loads + 1 ELSE loads
            /\ request' = Some(call)
            /\ result' = Some(out)
            /\ first' = IF first = None THEN Some([request |-> call, result |-> out])
                        ELSE first
            /\ later' = (first # None)
            /\ UNCHANGED <<file, pc, local, got, scoreVars, projVars, appVars>>

NextRank == RecommendProducts

SpecRank == InitRank /\ [][NextRank]_vars

(***************************************************************************)
(* Properties of the ranker (checked under SpecRank).  They are stated on  *)
(* the last completed call: its arguments, the rows it selected, and the   *)
(* catalogue file, from which eligibility is worked out afresh.            *)
(***************************************************************************)
CallProfile == Val(request).profile
CallTopN == Val(request).top_n
Selected == Val(result).selected
CallRiskProfile == infer_risk_profile(simple_risk_score(CallProfile))

\* File rows (by position) suitable for the computed risk profile, and those
\* among them that match the purpose.
Eligible == {i \in 1..Len(file) : CallRiskProfile \in file[i].Suitable_Risk_Profiles}
EligibleMatching ==
    {i \in Eligible : CallProfile.investment_purpose \in file[i].Suitable_Purposes}
Matches(r) == CallProfile.investment_purpose \in r.Suitable_Purposes

\* C4: every product returned, from the purpose stage or the fallback fill,
\* has a Suitable_Risk_Profiles value containing the computed risk profile.
C4_HardFilterRespected ==
    IsSome(result) =>
        \A k \in DOMAIN Selected :
            CallRiskProfile \in Selected[k].Suitable_Risk_Profiles

\* A call returned a purpose-matching row and a fallback row from a file that
\* also holds a row unsuitable for the computed risk profile.
C4_Witness ==
    /\ IsSome(result)
    /\ \E i \in 1..Len(file) : CallRiskProfile \notin file[i].Suitable_Risk_Profiles
    /\ \E k \in DOMAIN Selected : Matches(Selected[k])
    /\ \E k \in DOMAIN Selected : ~Matches(Selected[k])

\* C5: purpose-matching entries all precede non-matching ones; a non-matching
\* product is returned only when every eligible purpose-matching product is;
\* with at least top_n eligible matching products none is returned.
C5_PurposePriority ==
    IsSome(result) =>
        /\ \A i, j \in DOMAIN Selected :
               i < j => ~(~Matches(Selected[i]) /\ Matches(Selected[j]))
        /\ (\E k \in DOMAIN Selected : ~Matches(Selected[k])) =>
               \A i \in EligibleMatching :
                   \E k \in DOMAIN Selected : Selected[k].index = i - 1
        /\ Cardinality(EligibleMatching) >= CallTopN =>
               \A k \in DOMAIN Selected : Matches(Selected[k])

\* A call returned an unaffordable purpose-matching product ahead of an
\* affordable non-matching one.
C5_Witness ==
    /\ IsSome(result)
    /\ \E i, j \in DOMAIN Selected :
           /\ i < j
           /\ Matches(Selected[i]) /\ ~affordable(CallProfile, Selected[i])
           /\ ~Matches(Selected[j]) /\ affordable(CallProfile, Selected[j])

\* C6: for top_n >= 0 the call returns exactly min(top_n, eligible rows)
\* entries, each a distinct row of the catalogue (no duplicate, no
\* placeholder), and the empty sequence when no row is suitable.
C6_ExactLength ==
    (IsSome(result) /\ CallTopN >= 0) =>
        /\ Len(Selected) = Min(CallTopN, Cardinality(Eligible))
        /\ Len(Val(result).recs) = Len(Selected)
        /\ \A k \in DOMAIN Selected :
               /\ Selected[k].index \in 0..(Len(file) - 1)
               /\ Selected[k] = [index |-> Selected[k].index] @@ file[Selected[k].index + 1]
               /\ Val(result).recs[k].product_name
                      = file[Selected[k].index + 1].Product_Name
        /\ \A i, j \in DOMAIN Selected :
               i # j => Selected[i].index # Selected[j].index
        /\ Eligible = {} => Val(result).recs = <<>>

\* A call with top_n above the number of eligible rows returned fewer than
\* top_n entries, from a file that also holds unsuitable rows.
C6_Witness ==
    /\ IsSome(result)
    /\ Len(Selected) > 0
    /\ Len(Selected) < CallTopN
    /\ Len(Selected) < Len(file)

\* Two rows tie on all three sort keys.
Tied(p, a, b) == ~SortsBefore(p, a, b) /\ ~SortsBefore(p, b, a)

KeyAffordable(r) == CallProfile.investment_budget >= r.Min_Investment
KeyRiskDiff(r) == Abs(r.Risk_Level - CallProfile.risk_tolerance)
RanksAbove(a, b) ==
    \/ KeyAffordable(a) /\ ~KeyAffordable(b)
    \/ /\ KeyAffordable(a) = KeyAffordable(b)
       /\ KeyRiskDiff(a) < KeyRiskDiff(b)
    \/ /\ KeyAffordable(a) = KeyAffordable(b)
       /\ KeyRiskDiff(a) = KeyRiskDiff(b)
       /\ a.Min_Investment < b.Min_Investment
SelectedIndexes == {Selected[k].index + 1 : k \in DOMAIN Selected}

\* C12: within the purpose-matching part of the output, and within the
\* fallback part, no entry is preceded by one that ranks below it on
\* (affordable descending, risk_diff ascending, Min_Investment ascending); and
\* no eligible row left out of a part ranks above a row returned in it.
C12_PartsOrderedByKey ==
    IsSome(result) =>
        LET eligible == Eligible
            chosen == SelectedIndexes
        IN  /\ \A i, j \in DOMAIN Selected :
                   (i < j /\ Matches(Selected[i]) = Matches(Selected[j])) =>
                       ~RanksAbove(Selected[j], Selected[i])
            /\ \A k \in DOMAIN Selected : \A i \in eligible \ chosen :
                   Matches(file[i]) = Matches(Selected[k]) =>
                       ~RanksAbove(file[i], Selected[k])

\* One part of the output holds a row with the smaller risk_diff ahead of a
\* row with the smaller Min_Investment, and an eligible row of that part was
\* left out: an unaffordable one whose risk_diff is below both.
C12_Witness ==
    /\ IsSome(result)
    /\ \E i, j \in DOMAIN Selected :
           /\ i < j
           /\ Matches(Selected[i]) = Matches(Selected[j])
           /\ KeyAffordable(Selected[i]) /\ KeyAffordable(Selected[j])
           /\ KeyRiskDiff(Selected[i]) < KeyRiskDiff(Selected[j])
           /\ Selected[i].Min_Investment > Selected[j].Min_Investment
           /\ \E m \in Eligible \ SelectedIndexes :
                  /\ Matches(file[m]) = Matches(Selected[i])
                  /\ ~KeyAffordable(file[m])
                  /\ KeyRiskDiff(file[m]) < KeyRiskDiff(Selected[i])

(***************************************************************************)
(* core/cards.py: make_projection_text.  A text is the sequence of its     *)
(* fragments: the empty string is the empty sequence, the below-minimum    *)
(* message is one fixed fragment, and a numeric projection interleaves     *)
(* fixed fragments with the interpolated values.  future_value is          *)
(* principal * (1 + r) ** years with a fractional exponent; it is kept as  *)
(* the term [principal, base, exponent], and the gain as that term less    *)
(* the principal; the ",.0f" rendering of the amounts is not modelled.     *)
(***************************************************************************)
BelowMinimumText ==
    << "- Client budget is below the minimum investment, so projection is not shown." >>

duration_text(months) ==
    IF months < 24 THEN <<months, " months">>
    ELSE IF months % 12 = 0 THEN <<months \div 12, " years">>
    ELSE <<months \div 12, " years ", months % 12, " months">>

future_value(principal, months, rate_pct) ==
    [principal |-> Money(principal),
     base |-> RAdd(Float(1), RDiv(rate_pct, Float(100))),
     exponent |-> RDiv(Float(months), Float(12))]

\* A variant that also treats a principal equal to the minimum as below it.
make_projection_text_MinExclusive(principal, months, rate_pct, min_investment) ==
    IF rate_pct = None THEN <<>>
    ELSE IF principal <= min_investment THEN BelowMinimumText
    ELSE LET fv == future_value(principal, months, Val(rate_pct))
         IN  << "If you invest ", Money(principal), " for ", duration_text(months),
                ", the projected value could be about ", fv,
                " (gain of ~", [of |-> fv, less |-> Money(principal)], ")." >>

make_projection_text(principal, months, rate_pct, min_investment) ==
    IF rate_pct = None THEN <<>>
    ELSE IF principal < min_investment THEN BelowMinimumText
    ELSE LET fv == future_value(principal, months, Val(rate_pct))
         IN  << "If you invest ", Money(principal), " for ", duration_text(months),
                ", the projected value could be about ", fv,
                " (gain of ~", [of |-> fv, less |-> Money(principal)], ")." >>

PrincipalInputs == {0, Pounds(999), Pounds(1000), Pounds(5000)}
MinInvestmentInputs == {0, Pounds(1000), Pounds(5000)}
MonthsInputs == {6, 12, 18, 24, 30}
RateInputs == {None, Some(Float(0)), Some(Float(5)), Some(R(45, 10))}

InitProj ==
    /\ proj_in \in
           {Some([principal |-> a, months |-> m, rate_pct |-> r, min_investment |-> i]) :
                a \in PrincipalInputs, m \in MonthsInputs, r \in RateInputs,
                i \in MinInvestmentInputs}
    /\ proj_out = None
    /\ ScoreIdle /\ LoadIdle /\ RankIdle /\ AppIdle

MakeProjectionText ==
    /\ IsSome(proj_in) /\ proj_out = None
    /\ proj_out' = Some(make_projection_text(Val(proj_in).principal, Val(proj_in).months,
                                             Val(proj_in).rate_pct,
                                             Val(proj_in).min_investment))
    /\ UNCHANGED <<proj_in, scoreVars, loadVars, rankVars, appVars>>

NextProj == MakeProjectionText

SpecProj == InitProj /\ [][NextProj]_vars

\* A text that is a numeric projection: it opens with the investment sentence
\* and carries the projected value.
IsNumericProjection(text) ==
    /\ Len(text) = 9
    /\ text[1] = "If you invest "
    /\ text[6].exponent = RDiv(Float(Val(proj_in).months), Float(12))

\* C9: make_projection_text decides in this order: no rate, the empty text
\* whatever the principal; else principal < min_investment, the below-minimum
\* message; else (principal >= min_investment, equality included) a numeric
\* projection.  The three outcomes differ from one another.
C9_ThreeOutcomes ==
    IsSome(proj_out) =>
        LET a == Val(proj_in)
            text == Val(proj_out)
        IN  /\ a.rate_pct = None => text = <<>>
            /\ (a.rate_pct # None /\ a.principal < a.min_investment) =>
                   text = BelowMinimumText
            /\ (a.rate_pct # None /\ a.principal >= a.min_investment) =>
                   IsNumericProjection(text)
            /\ Len(text) \in {0, 1, 9}
            /\ BelowMinimumText # <<>>

\* A principal equal to the minimum investment, with a rate, was projected.
C9_Witness ==
    /\ IsSome(proj_out)
    /\ Val(proj_in).rate_pct # None
    /\ Val(proj_in).principal = Val(proj_in).min_investment
    /\ IsNumericProjection(Val(proj_out))

(***************************************************************************)
(* load_product_catalog called from concurrent request threads (Streamlit  *)
(* runs each session's script in its own thread; the module global         *)
(* _product_df_cache is shared and no lock guards it).  A thread is at     *)
(* line 15 (about to test the cache), line 16 (about to read the file),    *)
(* line 16 again with the frame read and not yet stored, or line 17.       *)
(***************************************************************************)
NumThreads == 2
Threads == 1..NumThreads

LoadFiles == SeqsUpTo(Pool, 1)

Init ==
    /\ file \in LoadFiles
    /\ cache = None /\ loads = 0
    /\ pc = [t \in Threads |-> "line15"]
    /\ local = [t \in Threads |-> None]
    /\ got = [t \in Threads |-> None]
    /\ ScoreIdle /\ ProjIdle /\ RankIdle /\ AppIdle

\* if _product_df_cache is None:
TestCache(t) ==
    /\ pc[t] = "line15"
    /\ pc' = [pc EXCEPT ![t] = IF cache = None THEN "line16" ELSE "line17"]
    /\ UNCHANGED <<cache, file, loads, local, got, scoreVars, projVars, rankVars, appVars>>

\* pd.read_csv(PRODUCT_CATALOG_PATH), the right-hand side of line 16
ReadCsv(t) ==
    /\ pc[t] = "line16"
    /\ local' = [local EXCEPT ![t] = Some(read_csv(file, loads + 1))]
    /\ loads' = loads + 1
    /\ pc' = [pc EXCEPT ![t] = "line16_store"]
    /\ UNCHANGED <<cache, file, got, scoreVars, projVars, rankVars, appVars>>

\* _product_df_cache = <the frame read>
StoreCache(t) ==
    /\ pc[t] = "line16_store"
    /\ cache' = local[t]
    /\ local' = [local EXCEPT ![t] = None]
    /\ pc' = [pc EXCEPT ![t] = "line17"]
    /\ UNCHANGED <<file, loads, got, scoreVars, projVars, rankVars, appVars>>

\* return _product_df_cache; the thread may then call again
ReturnCache(t) ==
    /\ pc[t] = "line17"
    /\ got' = [got EXCEPT ![t] = cache]
    /\ pc' = [pc EXCEPT ![t] = "line15"]
    /\ UNCHANGED <<cache, file, loads, local, scoreVars, projVars, rankVars, appVars>>

Next ==
    \E t \in Threads : TestCache(t) \/ ReadCsv(t) \/ StoreCache(t) \/ ReturnCache(t)

Spec == Init /\ [][Next]_vars

\* C10: under concurrent first accesses the catalogue file is read at most
\* once, and all callers, then and later, are returned the same frame object.
C10_SingleLoad ==
    /\ loads <= 1
    /\ \A t, u \in Threads :
           (IsSome(got[t]) /\ IsSome(got[u])) => Val(got[t]).id = Val(got[u]).id

\* C11: once the catalogue is cached, no step of load_product_catalog or
\* recommend_products changes the cache: it is not assigned again, and no row
\* or column of the cached frame is added, removed or modified.
C11_CacheUnchangedAfterLoad == [][IsSome(cache) => cache' = cache]_vars

(***************************************************************************)
(* core/llm_extractor.py and app.py: the application flow.  Streamlit runs *)
(* the app.py script from top to bottom once per user event; the session   *)
(* state (ai_profile, reset, user_text) and the module-level catalogue     *)
(* cache outlive a run, while final_profile, score, risk_profile and       *)
(* recommendations are locals of the run that assigns them.  One action    *)
(* is one run.  The JSON object the language model returned is a record    *)
(* of optional fields (None: the key is absent); annual incomes are whole  *)
(* pounds.                                                                 *)
(***************************************************************************)
DefaultTopN == 5

\* data.get(key, default) or default
get_or(field, default) ==
    IF field = None \/ Val(field) = 0 THEN default ELSE Val(field)

\* data.get(key, default)
get(field, default) == IF field = None THEN default ELSE Val(field)

infer_income_bracket(annual_income) ==
    IF annual_income = None THEN INCOME_BANDS[1]
    ELSE IF Val(annual_income) < 25000 THEN "0-£25,000"
    ELSE IF Val(annual_income) < 50000 THEN "25,000 - 49,999"
    ELSE IF Val(annual_income) < 75000 THEN "50,000 - 74,999"
    ELSE IF Val(annual_income) < 100000 THEN "75,000 - 99,999"
    ELSE "100,000 or more"

\* Lines 98-110 of extract_profile, on the parsed JSON object.
extract_profile(data) ==
    LET annual_income == get_or(data.annual_income_gbp, 0)
        income_bracket == infer_income_bracket(Some(annual_income))
    IN  InvestorProfile(income_bracket,
                        get_or(data.savings, 0),
                        get(data.debt_level, "No debt"),
                        get_or(data.investment_budget, 0),
                        get_or(data.investment_term_months, 60),
                        get_or(data.risk_tolerance, 3),
                        get(data.investment_purpose, "Wealth accumulation"))

\* st.selectbox(label, options, index): the option shown first.
selectbox_index(options, value) ==
    IF value \in Range(options)
    THEN (CHOOSE i \in DOMAIN options : options[i] = value) - 1
    ELSE 0

\* What the user may pick instead of a widget's initial value, within the
\* widget's options or range.
IncomeChoices == {"Less than 25,000"}
SavingsChoices == {Pounds(2500)}
RiskToleranceChoices == {5}

\* The values each form widget can hold when the form is submitted: its
\* initial value, computed from the stored AI profile, or the user's pick.
income_widget(ai) ==
    {INCOME_BANDS[selectbox_index(INCOME_BANDS, ai.income_bracket) + 1]}
        \cup IncomeChoices
savings_widget(ai) ==
    {IF ai.savings > 0 THEN ai.savings ELSE 0} \cup SavingsChoices
debt_level_widget(ai) ==
    {DEBT_BANDS[selectbox_index(DEBT_BANDS, ai.debt_level) + 1]}
investment_budget_widget(ai) ==
    {IF ai.investment_budget > 0 THEN ai.investment_budget ELSE 0}
investment_term_months_widget(ai) ==
    {IF ai.investment_term_months > 0 THEN ai.investment_term_months ELSE 60}

\* A variant whose slider starts at the extracted value, whatever it is.
risk_tolerance_widget_Unclamped(ai) ==
    {ai.risk_tolerance} \cup RiskToleranceChoices

risk_tolerance_widget(ai) ==
    {IF 1 <= ai.risk_tolerance /\ ai.risk_tolerance <= 5 THEN ai.risk_tolerance ELSE 3}
        \cup RiskToleranceChoices
investment_purpose_widget(ai) ==
    {PURPOSES[selectbox_index(PURPOSES, ai.investment_purpose) + 1]}

\* JSON objects the language model may return.  Three shapes: every field
\* usable, every field outside its range, and every key but the income absent;
\* each with an annual income that is absent, negative, 0 or around a band edge.
AnnualIncomeInputs ==
    {None} \cup {Some(x) : x \in {-5, 0, 10000, 24999, 25000, 60000, 80000, 100000}}

Data(annual_income, savings, debt, budget, term, tolerance, purpose) ==
    [annual_income_gbp |-> annual_income, savings |-> savings, debt_level |-> debt,
     investment_budget |-> budget, investment_term_months |-> term,
     risk_tolerance |-> tolerance, investment_purpose |-> purpose]

ExtractedData ==
    {Data(i, Some(Pounds(10000)), Some("No debt"), Some(Pounds(5000)), Some(60),
          Some(2), Some("Buying property")) : i \in AnnualIncomeInputs}
        \cup {Data(i, Some(-Pounds(1000)), Some("unknown"), Some(-Pounds(50)),
                   Some(-12), Some(9), Some("House deposit")) : i \in AnnualIncomeInputs}
        \cup {Data(i, None, None, None, None, None, None) : i \in AnnualIncomeInputs}

\* Contents of the text area; user_text.strip() is empty for the first two.
TextInputs == {"", " ", "client notes"}
IsBlank(text) == text \in {"", " "}

InitApp ==
    /\ file \in LoadFiles
    /\ cache = None /\ loads = 0
    /\ pc = <<>> /\ local = <<>> /\ got = <<>>
    /\ ScoreIdle /\ ProjIdle /\ RankIdle /\ AppIdle

\* A run that does not reach the block under `if submitted:`.
NotSubmitted ==
    /\ profile' = None /\ score' = None /\ label' = None
    /\ request' = None /\ result' = None
    /\ UNCHANGED <<first, later, projVars, loadVars>>

\* "Analyze profile with AI" clicked with a blank text: the warning.
AnalyseEmpty ==
    /\ reset = FALSE
    /\ \E text \in TextInputs : IsBlank(text) /\ user_text' = text
    /\ run' = "warning"
    /\ UNCHANGED <<ai_profile, reset>>
    /\ NotSubmitted

\* "Analyze profile with AI" clicked, and extract_profile returned.
AnalyseExtracted ==
    /\ reset = FALSE
    /\ \E text \in TextInputs : ~IsBlank(text) /\ user_text' = text
    /\ \E data \in ExtractedData : ai_profile' = Some(extract_profile(data))
    /\ run' = "extracted"
    /\ UNCHANGED reset
    /\ NotSubmitted

\* "Analyze profile with AI" clicked, and extract_profile raised.
AnalyseFailed ==
    /\ reset = FALSE
    /\ \E text \in TextInputs : ~IsBlank(text) /\ user_text' = text
    /\ ai_profile' = None
    /\ run' = "failed"
    /\ UNCHANGED reset
    /\ NotSubmitted

\* The form's submit button clicked: lines 177-211.
Submit ==
    /\ reset = FALSE
    /\ IsSome(ai_profile)
    /\ \E income_bracket \in income_widget(Val(ai_profile)),
          savings \in savings_widget(Val(ai_profile)),
          debt_level \in debt_level_widget(Val(ai_profile)),
          investment_budget \in investment_budget_widget(Val(ai_profile)),
          investment_term_months \in investment_term_months_widget(Val(ai_profile)),
          risk_tolerance \in risk_tolerance_widget(Val(ai_profile)),
          investment_purpose \in investment_purpose_widget(Val(ai_profile)) :
        LET final_profile ==
                InvestorProfile(income_bracket, savings, debt_level, investment_budget,
                                investment_term_months, risk_tolerance,
                                investment_purpose)
            risk_score == simple_risk_score(final_profile)
            df_cache == load_product_catalog(cache, file, loads)
            out == recommend_products(df_cache, final_profile, DefaultTopN)
        IN  /\ profile' = Some(final_profile)
            /\ score' = Some(risk_score)
            /\ label' = Some(infer_risk_profile(risk_score))
            /\ request' = Some([profile |-> final_profile, top_n |-> DefaultTopN])
            /\ result' = Some(out)
            /\ cache' = recommend_products_cache(df_cache, final_profile, DefaultTopN)
            /\ loads' = IF cache = None THEN loads + 1 ELSE loads
    /\ run' = "submitted"
    /\ UNCHANGED <<ai_profile, reset, user_text, file, pc, local, got, first,
                   later, projVars>>

\* "Reset and start again" clicked: the run sets the flag and asks for a rerun.
ResetClicked ==
    /\ reset = FALSE
    /\ reset' = TRUE
    /\ run' = "reset clicked"
    /\ UNCHANGED <<ai_profile, user_text>>
    /\ NotSubmitted

\* The rerun that follows: lines 55-58 clear the session.
ResetRerun ==
    /\ reset = TRUE
    /\ user_text' = ""
    /\ ai_profile' = None
    /\ reset' = FALSE
    /\ run' = "reset"
    /\ NotSubmitted

NextApp ==
    \/ AnalyseEmpty
    \/ AnalyseExtracted
    \/ AnalyseFailed
    \/ Submit
    \/ ResetClicked
    \/ ResetRerun

SpecApp == InitApp /\ [][NextApp]_vars

\* Every field of p is in its domain.
InDomain(p) ==
    /\ p.income_bracket \in Range(INCOME_BANDS)
    /\ p.debt_level \in Range(DEBT_BANDS)
    /\ p.investment_purpose \in Range(PURPOSES)
    /\ p.risk_tolerance \in 1..5
    /\ p.investment_term_months >= 1
    /\ p.savings >= 0
    /\ p.investment_budget >= 0

\* C14: in the application flow simple_risk_score and recommend_products
\* receive only the profile confirmed in the form, in a run that holds a
\* stored AI profile, and every field of it is in its domain whatever was
\* extracted; after a failed extraction or a reset the stored AI profile is
\* None and that run scores and ranks nothing.
C14_ScoringOnlyOnConfirmedProfile ==
    /\ IsSome(profile) =>
           /\ run = "submitted" /\ IsSome(ai_profile)
           /\ InDomain(Val(profile))
    /\ IsSome(request) =>
           /\ run = "submitted" /\ IsSome(ai_profile)
           /\ InDomain(Val(request).profile)
           /\ IsSome(profile) /\ Val(request).profile = Val(profile)
    /\ run \in {"failed", "reset"} =>
           ai_profile = None /\ profile = None /\ request = None

\* A confirmed profile was scored and ranked while the stored AI profile had
\* every field outside its domain.
C14_Witness ==
    /\ run = "submitted" /\ IsSome(profile) /\ IsSome(request) /\ IsSome(ai_profile)
    /\ Val(ai_profile).income_bracket \notin Range(INCOME_BANDS)
    /\ Val(ai_profile).debt_level \notin Range(DEBT_BANDS)
    /\ Val(ai_profile).investment_purpose \notin Range(PURPOSES)
    /\ Val(ai_profile).risk_tolerance \notin 1..5
    /\ Val(ai_profile).investment_term_months < 1
    /\ Val(ai_profile).savings < 0
    /\ Val(ai_profile).investment_budget < 0

\* C17: the income bracket infer_income_bracket gives the extracted profile
\* is one of the configured bands, a member of INCOME_BANDS.
C17_BracketIsConfiguredBand ==
    run = "extracted" => Val(ai_profile).income_bracket \in Range(INCOME_BANDS)

====
